---- MODULE Spec2Model ----
(***************************************************************************)
(* zen::corex::String and zen::corex::Array<T> (src/CoreX/src/String.h,    *)
(* src/CoreX/src/String.cpp) as state machines.                            *)
(*                                                                         *)
(* A String object is the record of its three fields: data (the bytes of   *)
(* the buffer the pointer names, as far as they were written), size and    *)
(* capacity.  No two Strings ever share a buffer; the one alias the code   *)
(* creates is the char* that toCharArray returns, which is the variable    *)
(* ptr.  A byte is its character code.                                     *)
(***************************************************************************)
EXTENDS Integers, Sequences, FiniteSets, TLC

VARIABLES
    strs,   \* the String objects a and b
    ptr,    \* the char* the caller got from toCharArray
    arrs,   \* the Array<int> objects
    last,   \* the last call: operation, object, argument, what it returned
    hist    \* the objects as they were before the last call

vars == <<strs, ptr, arrs, last, hist>>

(***************************************************************************)
(* Bounds of the model.                                                    *)
(***************************************************************************)
\* longest String content the operations are allowed to build
MaxLen == 3
\* longest std::string / C literal handed to a constructor or an overload
MaxLit == 2
\* longest std::vector handed to an Array constructor
MaxVec == 2
\* most elements an Array is allowed to grow to
MaxArr == 3

\* String.h:39
DEFAULT_CAPACITY == 32

\* The lengths a String is let grow to: the short ones, and the two at the
\* boundary of the first capacity block.
Bounded(n) == n <= MaxLen \/ n \in {DEFAULT_CAPACITY - 1, DEFAULT_CAPACITY}

NUL == 0
Objs == {"a", "b"}

\* character codes the inputs are drawn from: NUL, '2', 'a'
Alphabet == {0, 50, 97}

RECURSIVE SeqsUpTo(_, _)
SeqsUpTo(S, n) ==
    IF n = 0 THEN {<<>>}
    ELSE LET shorter == SeqsUpTo(S, n - 1)
         IN  shorter \cup {Append(s, c) : s \in {t \in shorter : Len(t) = n - 1}, c \in S}

\* the std::string values a caller passes in
StdStrings == SeqsUpTo(Alphabet, MaxLit)

\* what a fresh, unwritten new char[] may hold when read as a C string
\* (the bytes up to and including the first zero byte the read meets)
Garbage == {<<0>>, <<97, 0>>}

(***************************************************************************)
(* <cstring>, <cctype>, <cstdio> as the code uses them.                    *)
(***************************************************************************)
\* strlen: the number of bytes before the first zero byte
strlen(bytes) ==
    IF \E i \in 1..Len(bytes) : bytes[i] = NUL
    THEN (CHOOSE i \in 1..Len(bytes) :
              bytes[i] = NUL /\ \A j \in 1..(i - 1) : bytes[j] # NUL) - 1
    ELSE Len(bytes)

\* std::string(const char*): the bytes before the first zero byte
CStr(bytes) == SubSeq(bytes, 1, strlen(bytes))

\* strcmp(x, y) == 0
strcmpEq(x, y) == CStr(x) = CStr(y)

isdigit(c) == c \in 48..57
isspace(c) == c = 32 \/ c \in 9..13
tolower(c) == IF c \in 65..90 THEN c + 32 ELSE c
toupper(c) == IF c \in 97..122 THEN c - 32 ELSE c

RECURSIVE SkipSpace(_)
SkipSpace(s) == IF s # <<>> /\ isspace(Head(s)) THEN SkipSpace(Tail(s)) ELSE s

RECURSIVE DigitRun(_)
DigitRun(s) ==
    IF s # <<>> /\ isdigit(Head(s)) THEN <<Head(s)>> \o DigitRun(Tail(s)) ELSE <<>>

RECURSIVE DecValue(_)
DecValue(ds) ==
    IF ds = <<>> THEN 0
    ELSE 10 * DecValue(SubSeq(ds, 1, Len(ds) - 1)) + (ds[Len(ds)] - 48)

\* sscanf(s, "%d", &number): skips white space, takes an optional sign and
\* the longest run of digits, and stops there; whatever follows is left
\* unread.  ok is (sscanf(...) == 1).
sscanfInt(bytes) ==
    LET s    == SkipSpace(CStr(bytes))
        neg  == s # <<>> /\ Head(s) = 45
        sgn  == s # <<>> /\ Head(s) \in {43, 45}
        ds   == DigitRun(IF sgn THEN Tail(s) ELSE s)
    IN  IF ds = <<>> THEN [ok |-> FALSE, value |-> 0]
        ELSE [ok |-> TRUE,
              value |-> IF neg THEN 0 - DecValue(ds) ELSE DecValue(ds)]

(***************************************************************************)
(* String                                                                  *)
(***************************************************************************)
\* initialize that takes its input for a C string: length and bytes up to the
\* first zero byte
initialize_strlen(s, input, g) ==
    IF CStr(input) = <<>>
    THEN [s EXCEPT !.size = 0, !.capacity = DEFAULT_CAPACITY, !.data = g]
    ELSE [s EXCEPT !.size = Len(CStr(input)),
                   !.capacity = ((Len(CStr(input)) + 1 + 31) \div 32) * 32,
                   !.data = CStr(input) \o <<NUL>>]

\* initialize that rounds the length up without the byte of the terminator
initialize_tight(s, input, g) ==
    IF input = <<>>
    THEN [s EXCEPT !.size = 0, !.capacity = DEFAULT_CAPACITY, !.data = g]
    ELSE [s EXCEPT !.size = Len(input),
                   !.capacity = ((Len(input) + 31) \div 32) * 32,
                   !.data = input \o <<NUL>>]

\* initialize that always takes one block more than the whole blocks needed
initialize_spare(s, input, g) ==
    IF input = <<>>
    THEN [s EXCEPT !.size = 0, !.capacity = DEFAULT_CAPACITY, !.data = g]
    ELSE [s EXCEPT !.size = Len(input),
                   !.capacity = (((Len(input) + 1) \div 32) + 1) * 32,
                   !.data = input \o <<NUL>>]

\* String::initialize: the fields after the call.  g is what the unwritten
\* new char[DEFAULT_CAPACITY] of the empty case happens to hold.
initialize(s, input, g) ==
    IF input = <<>>
    THEN [s EXCEPT !.size = 0, !.capacity = DEFAULT_CAPACITY, !.data = g]
    ELSE LET needed_capacity == Len(input) + 1
         IN  [s EXCEPT !.size = Len(input),
                       !.capacity = ((needed_capacity + 31) \div 32) * 32,
                       !.data = input \o <<NUL>>]

\* The fields a call of initialize may leave: one outcome for a non-empty
\* input, one per content of the unwritten buffer for the empty input.
Initialized(s, input) ==
    IF input = <<>> THEN {initialize(s, input, g) : g \in Garbage}
    ELSE {initialize(s, input, <<>>)}

\* String::getSize, String::isEmpty
getSize(s) == s.size
isEmpty(s) == s.size = 0

\* String::toString: the bytes at 0..size-1
toString(s) == SubSeq(s.data, 1, s.size)

\* What a caller can observe of a String: its size and its bytes.
View(s) == [size |-> getSize(s), bytes |-> toString(s)]

NoString == [alive |-> FALSE, data |-> <<>>, size |-> 0, capacity |-> 0]
NoCall == [op |-> "none"]

\* the names of the Array objects, and a name with no object
ArrObjs == {"x", "y"}
NoArray == [alive |-> FALSE, null |-> TRUE, elems |-> <<>>, size |-> 0]
NullPtr == [to |-> "null", st |-> "none", bytes |-> <<>>]

Snapshot == [strs |-> strs, ptr |-> ptr, arrs |-> arrs]

\* the const char* arguments a caller passes in: the null pointer, or a
\* zero-terminated array of non-zero bytes
NullCStr == <<>>
CPointers == {NullCStr} \cup {s \o <<NUL>> : s \in {t \in StdStrings : \A i \in 1..Len(t) : t[i] # NUL}}

\* The bytes a read through the char* meets, while its buffer is allocated.
PtrBytes(ss, p) == IF p.to \in Objs THEN ss[p.to].data ELSE p.bytes

\* The char* after object x let go of its buffer (fate: "leaked" when the
\* buffer was dropped without delete, "freed" when it was deleted): a
\* pointer into that buffer keeps naming it.
PtrAfter(x, fate) ==
    IF ptr.to = x
    THEN [to |-> "old", st |-> fate, bytes |-> strs[x].data]
    ELSE ptr

\* The common end of a String operation on object x that puts the fields s
\* in place; fate says what became of the buffer x had: "kept", "leaked",
\* "freed".
Finish(x, s, fate, call) ==
    /\ strs' = [strs EXCEPT ![x] = s]
    /\ ptr' = IF fate = "kept" THEN ptr ELSE PtrAfter(x, fate)
    /\ last' = call
    /\ UNCHANGED arrs

\* How a call ended: it returned nothing, returned v, or threw.
Void == [kind |-> "void", value |-> 0]
Value(v) == [kind |-> "value", value |-> v]
Thrown(e) == [kind |-> e, value |-> 0]

\* The record of a call on object x.
Call(op, x, arg) == [op |-> op, obj |-> x, arg |-> arg, ret |-> Void]

Returning(call, ret) == [call EXCEPT !.ret = ret]

\* String::String(const std::string&), String::String() on a name whose
\* previous object was destroyed
Construct(x, input) ==
    /\ ~strs[x].alive
    /\ \E s \in Initialized([NoString EXCEPT !.alive = TRUE], input) :
          Finish(x, s, "kept", Call("construct", x, input))

\* a copy constructor that copies the source as a C string, through its
\* char*, instead of its size bytes
CopyConstruct_cstr(x, y) ==
    /\ ~strs[x].alive /\ strs[y].alive
    /\ \E s \in Initialized([NoString EXCEPT !.alive = TRUE], CStr(strs[y].data)) :
          Finish(x, s, "kept", Call("copy", x, y))

\* String::String(const String&)
CopyConstruct(x, y) ==
    /\ ~strs[x].alive /\ strs[y].alive
    /\ \E s \in Initialized([NoString EXCEPT !.alive = TRUE], toString(strs[y])) :
          Finish(x, s, "kept", Call("copy", x, y))

\* String::~String
Destroy(x) ==
    /\ strs[x].alive
    /\ Finish(x, NoString, "freed", Call("destroy", x, <<>>))

\* String::operator=(const String&), x = y
AssignString(x, y) ==
    /\ strs[x].alive /\ strs[y].alive
    /\ IF x = y \/ (isEmpty(strs[y]) = FALSE)
       THEN Finish(x, strs[x], "kept", Call("assign", x, y))
       ELSE \E s \in Initialized(strs[x], toString(strs[y])) :
               Finish(x, s, "leaked", Call("assign", x, y))

\* String::operator=(const std::string&)
AssignStd(x, input) ==
    /\ strs[x].alive
    /\ IF input = <<>>
       THEN Finish(x, strs[x], "kept", Call("assignStd", x, input))
       ELSE \E s \in Initialized(strs[x], input) :
               Finish(x, s, "leaked", Call("assignStd", x, input))

\* String::operator=(const char*)
AssignCStr(x, input) ==
    /\ strs[x].alive
    /\ IF input = NullCStr
       THEN Finish(x, strs[x], "kept", Call("assignCStr", x, input))
       ELSE \E s \in Initialized(strs[x], CStr(input)) :
               Finish(x, s, "leaked", Call("assignCStr", x, input))

\* The fields s.append(input) may leave in s.
Appended(s, input) ==
    LET currentDataSize == strlen(s.data)
        tmpString       == toString(input)
        \* strcpy(newData, data), the copy loop, the terminator
        newData         == SubSeq(s.data, 1, currentDataSize)
                               \o tmpString \o <<NUL>>
    IN  IF isEmpty(input) THEN {s}
        ELSE Initialized(s, CStr(newData))

\* String::append, x.append(y)
append(x, y) ==
    /\ strs[x].alive /\ strs[y].alive
    /\ Bounded(strlen(strs[x].data) + getSize(strs[y]))
    /\ IF isEmpty(strs[y])
       THEN Finish(x, strs[x], "kept", Call("append", x, y))
       ELSE \E s \in Appended(strs[x], strs[y]) :
               Finish(x, s, "freed", Call("append", x, y))

\* String::operator+=(const String&), x += y
StrPlusAssign(x, y) ==
    /\ strs[x].alive /\ strs[y].alive
    /\ Bounded(strlen(strs[x].data) + getSize(strs[y]))
    /\ IF x = y \/ getSize(strs[y]) = 0
       THEN Finish(x, strs[x], "kept", Call("strPlusAssign", x, y))
       ELSE \E s \in Appended(strs[x], strs[y]) :
               Finish(x, s, "freed", Call("strPlusAssign", x, y))

\* String::reverse
reverse(x) ==
    /\ strs[x].alive
    /\ Bounded(strs[x].size + 1)
    /\ LET size == strs[x].size
           \* i runs from size down to 0: data[size] is read too
           str  == [k \in 1..(size + 1) |-> strs[x].data[size + 2 - k]]
       IN  \E s \in Initialized(strs[x], str) :
              Finish(x, s, "leaked", Call("reverse", x, <<>>))

\* String::getCapacity
getCapacity(s) == s.capacity

\* a clear that empties the String in the buffer it has
clear_keep(x) ==
    /\ strs[x].alive
    /\ Finish(x, [strs[x] EXCEPT !.size = 0, !.data = <<NUL>>], "kept",
              Call("clear", x, <<>>))

\* String::clear
clear(x) ==
    /\ strs[x].alive
    /\ \E s \in Initialized(strs[x], <<>>) :
          Finish(x, s, "leaked", Call("clear", x, <<>>))

\* String::toLowerCase: data[i] = tolower(data[i]) for every i < size
toLowerCase(x) ==
    /\ strs[x].alive
    /\ LET s == strs[x]
       IN  Finish(x, [s EXCEPT !.data = [k \in 1..Len(@) |->
                                           IF k <= s.size THEN tolower(@[k]) ELSE @[k]]],
                  "kept", Call("toLowerCase", x, <<>>))

\* String::toUpperCase: data[i] = toupper(data[i]) for every i < size
toUpperCase(x) ==
    /\ strs[x].alive
    /\ LET s == strs[x]
       IN  Finish(x, [s EXCEPT !.data = [k \in 1..Len(@) |->
                                           IF k <= s.size THEN toupper(@[k]) ELSE @[k]]],
                  "kept", Call("toUpperCase", x, <<>>))

\* String::operator[] read: c = x[index]
IndexRead(x, index) ==
    /\ strs[x].alive
    /\ Finish(x, strs[x], "kept",
              Returning(Call("index", x, index),
                        IF index >= strs[x].size
                        THEN Thrown("out_of_range")
                        ELSE Value(strs[x].data[index + 1])))

\* String::operator[] written through: x[index] = c
IndexWrite(x, index, c) ==
    /\ strs[x].alive
    /\ IF index >= strs[x].size
       THEN Finish(x, strs[x], "kept",
                   Returning(Call("indexWrite", x, index), Thrown("out_of_range")))
       ELSE Finish(x, [strs[x] EXCEPT !.data[index + 1] = c], "kept",
                   Returning(Call("indexWrite", x, index), Value(c)))

\* String::operator==(const String&): data is never null in a constructed
\* String, so the comparison is the size test and strcmp
Equal(s, t) ==
    IF s.size # t.size THEN FALSE
    ELSE strcmpEq(s.data, t.data)

\* x == y
Equals(x, y) ==
    /\ strs[x].alive /\ strs[y].alive
    /\ Finish(x, strs[x], "kept",
              Returning(Call("equals", x, y), Value(Equal(strs[x], strs[y]))))

\* String::operator!=(const String&), x != y
NotEquals(x, y) ==
    /\ strs[x].alive /\ strs[y].alive
    /\ Finish(x, strs[x], "kept",
              Returning(Call("notEquals", x, y), Value(~Equal(strs[x], strs[y]))))

\* String::toInt
toInt(x) ==
    /\ strs[x].alive
    /\ LET r == sscanfInt(strs[x].data)
       IN  Finish(x, strs[x], "kept",
                  Returning(Call("toInt", x, <<>>),
                            IF r.ok THEN Value(r.value) ELSE Thrown("invalid_argument")))

\* sscanf(s, "%f", &number) and "%lf": skips white space, takes an optional
\* sign, a run of digits, and a '.' with a run of digits after it; at least
\* one digit is needed.  The number read is kept as its sign, whole part and
\* fraction digits.  (Exponents, hexadecimal, "inf" and "nan" need bytes that
\* the inputs here do not hold.)
sscanfFloat(bytes) ==
    LET s    == SkipSpace(CStr(bytes))
        neg  == s # <<>> /\ Head(s) = 45
        sgn  == s # <<>> /\ Head(s) \in {43, 45}
        t    == IF sgn THEN Tail(s) ELSE s
        ds   == DigitRun(t)
        u    == SubSeq(t, Len(ds) + 1, Len(t))
        fs   == IF u # <<>> /\ Head(u) = 46 THEN DigitRun(Tail(u)) ELSE <<>>
    IN  IF ds = <<>> /\ fs = <<>> THEN [ok |-> FALSE, value |-> 0]
        ELSE [ok |-> TRUE,
              value |-> [neg |-> neg, whole |-> DecValue(ds), frac |-> fs]]

\* String::toShort: "%hd" stores the number read in a short
toShort(x) ==
    /\ strs[x].alive
    /\ LET r == sscanfInt(strs[x].data)
       IN  Finish(x, strs[x], "kept",
                  Returning(Call("toShort", x, <<>>),
                            IF r.ok THEN Value(((r.value + 32768) % 65536) - 32768)
                            ELSE Thrown("invalid_argument")))

\* String::toLong
toLong(x) ==
    /\ strs[x].alive
    /\ LET r == sscanfInt(strs[x].data)
       IN  Finish(x, strs[x], "kept",
                  Returning(Call("toLong", x, <<>>),
                            IF r.ok THEN Value(r.value) ELSE Thrown("invalid_argument")))

\* String::toFloat
toFloat(x) ==
    /\ strs[x].alive
    /\ LET r == sscanfFloat(strs[x].data)
       IN  Finish(x, strs[x], "kept",
                  Returning(Call("toFloat", x, <<>>),
                            IF r.ok THEN Value(r.value) ELSE Thrown("invalid_argument")))

\* String::toDouble
toDouble(x) ==
    /\ strs[x].alive
    /\ LET r == sscanfFloat(strs[x].data)
       IN  Finish(x, strs[x], "kept",
                  Returning(Call("toDouble", x, <<>>),
                            IF r.ok THEN Value(r.value) ELSE Thrown("invalid_argument")))

\* String::toCharArray: p = x.toCharArray()
toCharArray(x) ==
    /\ strs[x].alive
    /\ strs' = strs
    /\ ptr' = [to |-> x, st |-> "live", bytes |-> <<>>]
    /\ last' = Call("toCharArray", x, <<>>)
    /\ UNCHANGED arrs

\* The caller writes p[index] = c through the pointer toCharArray returned,
\* inside the content it was given.
PtrWrite(index, c) ==
    /\ ptr.to \in Objs \/ (ptr.to = "old" /\ ptr.st = "leaked")
    /\ index + 1 < Len(PtrBytes(strs, ptr))
    /\ IF ptr.to \in Objs
       THEN /\ strs' = [strs EXCEPT ![ptr.to].data[index + 1] = c]
            /\ ptr' = ptr
       ELSE /\ ptr' = [ptr EXCEPT !.bytes[index + 1] = c]
            /\ strs' = strs
    /\ last' = Returning(Call("ptrWrite", "p", index), Value(c))
    /\ UNCHANGED arrs

\* strstr(hay, needle): the index of the first occurrence of the C string
\* needle in the C string hay, -1 for the null pointer it returns otherwise
strstr(hay, needle) ==
    LET h    == CStr(hay)
        n    == CStr(needle)
        hits == {i \in 0..(Len(h) - Len(n)) : SubSeq(h, i + 1, i + Len(n)) = n}
    IN  IF hits = {} THEN 0 - 1
        ELSE CHOOSE i \in hits : \A j \in hits : i <= j

\* The body of String::remove, x.remove(y), recorded as call.  When the
\* occurrence strstr found ends past size (the needle stopped at a zero byte
\* inside y) remainingLength wraps around and the copy loop runs off both
\* buffers until the process faults.
Removed(x, y, call) ==
    LET s          == strs[x]
        input      == strs[y]
        index      == strstr(s.data, input.data)
        afterIndex == index + input.size
        \* strncpy(newData, data, index), the copy loop, the terminator
        newData    == SubSeq(s.data, 1, index)
                          \o SubSeq(s.data, afterIndex + 1, s.size) \o <<NUL>>
    IN  IF isEmpty(input) \/ input.size > s.size
        THEN Finish(x, s, "kept", call)
        ELSE IF index = 0 - 1
        THEN Finish(x, s, "kept", call)
        ELSE IF afterIndex > s.size
        THEN Finish(x, s, "kept", Returning(call, Thrown("trap")))
        ELSE \E t \in Initialized(s, CStr(newData)) :
                Finish(x, t, "leaked", call)

\* String::remove
remove(x, y) ==
    /\ strs[x].alive /\ strs[y].alive
    /\ Removed(x, y, Call("remove", x, y))

\* String::operator-=(const String&), x -= y
MinusAssign(x, y) ==
    /\ strs[x].alive /\ strs[y].alive
    /\ IF x = y \/ getSize(strs[y]) = 0
       THEN Finish(x, strs[x], "kept", Call("minusAssign", x, y))
       ELSE Removed(x, y, Call("minusAssign", x, y))

\* contains through strstr: the search stops at the first zero byte
contains_strstr(s, input) ==
    IF isEmpty(input) \/ input.size > s.size THEN 0 - 1
    ELSE strstr(s.data, input.data)

\* String::contains: the value s.contains(input) returns
contains(s, input) ==
    IF isEmpty(input) THEN 0 - 1
    ELSE LET inputSize == input.size
             \* found stays true for i: data[i + j] = input[j] for every j
             found     == {i \in 0..(s.size - inputSize) :
                              \A j \in 0..(inputSize - 1) :
                                  s.data[i + j + 1] = input.data[j + 1]}
         IN  IF inputSize > s.size THEN 0 - 1
             ELSE IF found = {} THEN 0 - 1
             ELSE CHOOSE i \in found : \A k \in found : i <= k

\* n = x.contains(y)
Contains(x, y) ==
    /\ strs[x].alive /\ strs[y].alive
    /\ Finish(x, strs[x], "kept",
              Returning(Call("contains", x, y), Value(contains(strs[x], strs[y]))))

\* String::String(const char*), with input a zero-terminated array
ConstructCStr(x, input) ==
    /\ ~strs[x].alive
    /\ input # NullCStr
    /\ \E s \in Initialized([NoString EXCEPT !.alive = TRUE], CStr(input)) :
          Finish(x, s, "kept", Call("constructCStr", x, input))

\* String::isNumber: the value s.isNumber() returns
isNumber(s) == \A i \in 0..(s.size - 1) : isdigit(s.data[i + 1])

\* r = x.isNumber()
QueryIsNumber(x) ==
    /\ strs[x].alive
    /\ Finish(x, strs[x], "kept",
              Returning(Call("isNumber", x, <<>>), Value(isNumber(strs[x]))))

\* The C string a read at data + k meets.  Past the bytes the object wrote,
\* the buffer holds what the allocation happened to hold.
TailAt(data, k) ==
    IF k < Len(data) THEN {CStr(SubSeq(data, k + 1, Len(data)))}
    ELSE {CStr(g) : g \in Garbage}

\* String::replace, x.replace(o, n).  strcat copies C strings: of an empty
\* newStr it copies the unwritten buffer.  When what the two strcat calls
\* write does not fit the newSize bytes of newData the writes run past the
\* allocation: the process is stopped for the heap damage, or goes on with
\* the bytes it wrote.  A negative newSize makes new char[newSize] throw.
replace(x, o, n) ==
    /\ strs[x].alive /\ strs[o].alive /\ strs[n].alive
    /\ LET s              == strs[x]
           oldStr         == strs[o]
           newStr         == strs[n]
           call           == Call("replace", x, <<o, n>>)
           oldStringIndex == strstr(s.data, oldStr.data)
           newSize        == s.size - oldStr.size + newStr.size + 1
       IN  IF isEmpty(oldStr) \/ oldStringIndex = 0 - 1
           THEN Finish(x, s, "kept", call)
           ELSE IF newSize < 0
           THEN Finish(x, s, "kept", Returning(call, Thrown("bad_alloc")))
           ELSE \E tail \in TailAt(s.data, oldStringIndex + oldStr.size) :
                   LET newData == SubSeq(s.data, 1, oldStringIndex)
                                      \o CStr(newStr.data) \o tail
                   IN  \/ /\ Len(newData) + 1 > newSize
                          /\ Finish(x, s, "kept", Returning(call, Thrown("trap")))
                       \/ /\ Bounded(Len(newData))
                          /\ \E t \in Initialized(s, newData) :
                                Finish(x, t, "freed", call)

\* String::copy: String x = y.copy()
copy(x, y) ==
    /\ ~strs[x].alive /\ strs[y].alive
    /\ \E s \in Initialized([NoString EXCEPT !.alive = TRUE], toString(strs[y])) :
          Finish(x, s, "kept", Call("copyOf", x, y))

(***************************************************************************)
(* Array<int>                                                              *)
(*                                                                         *)
(* An Array object is its two fields: data, the std::unique_ptr<int[]>     *)
(* (null says whether it is nullptr, elems the elements of the allocation  *)
(* it owns otherwise), and size.                                           *)
(***************************************************************************)
\* the int values the callers store
Vals == {10, 20}

\* the std::vector<int> values a caller passes in
Vectors == SeqsUpTo(Vals, MaxVec)

\* std::make_unique<int[]>(n): n value-initialized elements
make_unique(n) == [k \in 1..n |-> 0]

\* Array::Array()
ArrayDefault == [alive |-> TRUE, null |-> TRUE, elems |-> <<>>, size |-> 0]

\* Array::Array(const std::vector<T>&)
ArrayFromVector(items) ==
    [alive |-> TRUE, null |-> FALSE,
     elems |-> [k \in 1..Len(items) |-> items[k]], size |-> Len(items)]

\* the Arrays a program has after constructing x, and y or not yet y
ConstructedArrays == {ArrayDefault} \cup {ArrayFromVector(v) : v \in Vectors}

InitArray ==
    /\ \E ax \in ConstructedArrays, ay \in ConstructedArrays \cup {NoArray} :
          arrs = [x \in ArrObjs |-> IF x = "x" THEN ax ELSE ay]
    /\ strs = [x \in Objs |-> NoString]
    /\ ptr = NullPtr
    /\ last = NoCall
    /\ hist = Snapshot

\* The common end of an Array operation on object x.
FinishArr(x, a, call) ==
    /\ arrs' = [arrs EXCEPT ![x] = a]
    /\ last' = call
    /\ UNCHANGED <<strs, ptr>>

\* Array::getSize, Array::isEmpty
arrGetSize(a) == a.size
arrIsEmpty(a) == a.size = 0

\* Array::operator[]: what a call a[index] may do.  With index < size and
\* data == nullptr the code reads through the null pointer, which is
\* undefined: the read traps or yields some value.
IndexOutcomes(a, index) ==
    IF index >= a.size THEN {Thrown("out_of_range")}
    ELSE IF a.null THEN {Thrown("trap")} \cup {Value(v) : v \in Vals}
    ELSE {Value(a.elems[index + 1])}

\* v = x[index]
ArrIndex(x, index) ==
    /\ arrs[x].alive
    /\ \E r \in IndexOutcomes(arrs[x], index) :
          FinishArr(x, arrs[x], Returning(Call("arrIndex", x, index), r))

\* Array::Array(Array&&): Array dst(std::move(src))
MoveConstruct(dst, src) ==
    /\ dst # src
    /\ ~arrs[dst].alive /\ arrs[src].alive
    /\ arrs' = [arrs EXCEPT
                  ![dst] = [alive |-> TRUE, null |-> arrs[src].null,
                            elems |-> arrs[src].elems, size |-> arrs[src].size],
                  ![src] = [@ EXCEPT !.null = TRUE, !.elems = <<>>]]
    /\ last' = Call("move", dst, src)
    /\ UNCHANGED <<strs, ptr>>

\* Array::~Array (implicit)
DestroyArr(x) ==
    /\ arrs[x].alive
    /\ FinishArr(x, NoArray, Call("arrDestroy", x, <<>>))

\* The mutators below read data[0..size-1]; on an Array whose data is
\* nullptr while size > 0 that is a read through the null pointer, and the
\* model does not follow the program past it.
Readable(a) == a.alive /\ (a.null => a.size = 0)

\* Array::add
add(x, input) ==
    /\ Readable(arrs[x])
    /\ arrs[x].size < MaxArr
    /\ LET size    == arrs[x].size
           newData == [k \in 1..(size + 1) |->
                          IF k <= size THEN arrs[x].elems[k] ELSE input]
       IN  FinishArr(x, [arrs[x] EXCEPT !.null = FALSE, !.elems = newData,
                                         !.size = size + 1],
                     Call("add", x, input))

\* What a caller can observe of an Array that holds its elements: its size
\* and the elements at 0..size-1.
ArrView(a) == [size |-> arrGetSize(a), elems |-> SubSeq(a.elems, 1, a.size)]

\* a remove that only lowers size and shifts nothing
arrRemove_noshift(x, input) ==
    /\ Readable(arrs[x])
    /\ IF \E k \in 1..arrs[x].size : arrs[x].elems[k] = input
       THEN FinishArr(x, [arrs[x] EXCEPT !.size = @ - 1], Call("arrRemove", x, input))
       ELSE FinishArr(x, arrs[x],
                      Returning(Call("arrRemove", x, input), Thrown("not_found")))

\* a remove that shifts the later elements left and forgets size--
arrRemove_keepsize(x, input) ==
    /\ Readable(arrs[x])
    /\ LET size == arrs[x].size
           hits == {k \in 1..size : arrs[x].elems[k] = input}
       IN  IF hits = {}
           THEN FinishArr(x, arrs[x],
                          Returning(Call("arrRemove", x, input), Thrown("not_found")))
           ELSE LET i == CHOOSE k \in hits : \A m \in hits : k <= m
                IN  FinishArr(x, [arrs[x] EXCEPT
                                    !.elems = [k \in 1..Len(@) |->
                                                  IF k >= i /\ k < size THEN @[k + 1]
                                                  ELSE @[k]]],
                              Call("arrRemove", x, input))

\* Array::toArray: x.toArray(array, size); the value returned here is what the
\* caller's array holds afterwards
toArray(x, size) ==
    /\ Readable(arrs[x])
    /\ FinishArr(x, arrs[x],
                 Returning(Call("toArray", x, size),
                           IF size > arrs[x].size THEN Thrown("logic_error")
                           ELSE Value(SubSeq(arrs[x].elems, 1, size))))

\* a remove that counts the element out before it has looked for it
arrRemove_eager(x, input) ==
    /\ Readable(arrs[x])
    /\ LET size == arrs[x].size
           hits == {k \in 1..size : arrs[x].elems[k] = input}
       IN  IF hits = {}
           THEN FinishArr(x, [arrs[x] EXCEPT !.size = IF size > 0 THEN size - 1 ELSE 0],
                          Returning(Call("arrRemove", x, input), Thrown("not_found")))
           ELSE LET i == CHOOSE k \in hits : \A m \in hits : k <= m
                IN  FinishArr(x, [arrs[x] EXCEPT
                                    !.elems = [k \in 1..Len(@) |->
                                                  IF k >= i /\ k < size THEN @[k + 1]
                                                  ELSE @[k]],
                                    !.size = size - 1],
                              Call("arrRemove", x, input))

\* Array::remove
arrRemove(x, input) ==
    /\ Readable(arrs[x])
    /\ LET size == arrs[x].size
           hits == {k \in 1..size : arrs[x].elems[k] = input}
       IN  IF hits = {}
           THEN FinishArr(x, arrs[x], Returning(Call("arrRemove", x, input), Thrown("not_found")))
           ELSE LET i == CHOOSE k \in hits : \A m \in hits : k <= m
                IN  \* data[j] = data[j + 1] for j in i..size-2; the
                    \* allocation keeps its length
                    FinishArr(x, [arrs[x] EXCEPT
                                    !.elems = [k \in 1..Len(@) |->
                                                  IF k >= i /\ k < size THEN @[k + 1]
                                                  ELSE @[k]],
                                    !.size = size - 1],
                              Call("arrRemove", x, input))

\* Array::operator+: the Array a + input.  result starts as Array() and gets
\* every data[i], then every input.data[i], through add.
plus(a, input) ==
    LET items == SubSeq(a.elems, 1, a.size) \o SubSeq(input.elems, 1, input.size)
    IN  IF items = <<>> THEN ArrayDefault
        ELSE [alive |-> TRUE, null |-> FALSE, elems |-> items, size |-> Len(items)]

\* c = x + y, with the temporary c as the value returned
Plus(x, y) ==
    /\ Readable(arrs[x]) /\ Readable(arrs[y])
    /\ arrs[x].size + arrs[y].size <= MaxArr
    /\ FinishArr(x, arrs[x],
                 Returning(Call("plus", x, y), Value(ArrView(plus(arrs[x], arrs[y])))))

\* an operator+= that puts the elements of input before its own
PlusAssign_front(x, y) ==
    /\ Readable(arrs[x]) /\ Readable(arrs[y])
    /\ arrs[x].size + arrs[y].size <= MaxArr
    /\ FinishArr(x, plus(arrs[y], arrs[x]), Call("plusAssign", x, y))

\* Array::operator+=, x += y
PlusAssign(x, y) ==
    /\ Readable(arrs[x]) /\ Readable(arrs[y])
    /\ arrs[x].size + arrs[y].size <= MaxArr
    /\ LET size    == arrs[x].size
           input   == arrs[y]
           newSize == size + input.size
           newData == [k \in 1..newSize |->
                          IF k <= size THEN arrs[x].elems[k] ELSE input.elems[k - size]]
       IN  IF input.size = 0
           THEN FinishArr(x, arrs[x], Call("plusAssign", x, y))
           ELSE IF size = 0
           THEN FinishArr(x, [arrs[x] EXCEPT
                                !.null = FALSE,
                                !.elems = [k \in 1..input.size |-> input.elems[k]],
                                !.size = input.size],
                          Call("plusAssign", x, y))
           ELSE FinishArr(x, [arrs[x] EXCEPT !.null = FALSE, !.elems = newData,
                                              !.size = newSize],
                          Call("plusAssign", x, y))

\* a copy-assignment that adds the source's elements without clear() first
ArrAssign_noclear(x, y) ==
    /\ arrs[x].alive /\ Readable(arrs[y])
    /\ arrs[x].size + arrs[y].size <= MaxArr
    /\ IF x = y
       THEN FinishArr(x, arrs[x], Call("arrAssign", x, y))
       ELSE FinishArr(x, plus(arrs[x], arrs[y]), Call("arrAssign", x, y))

\* Array::operator=(const Array&), x = y: clear(), then add(input.data[i])
\* for every i < input.size
ArrAssign(x, y) ==
    /\ arrs[x].alive /\ Readable(arrs[y])
    /\ IF x = y
       THEN FinishArr(x, arrs[x], Call("arrAssign", x, y))
       ELSE LET input   == arrs[y]
                cleared == [arrs[x] EXCEPT !.null = TRUE, !.elems = <<>>, !.size = 0]
            IN  FinishArr(x, IF input.size = 0 THEN cleared
                             ELSE [cleared EXCEPT
                                     !.null = FALSE,
                                     !.elems = SubSeq(input.elems, 1, input.size),
                                     !.size = input.size],
                          Call("arrAssign", x, y))

\* Array::clear
arrClear(x) ==
    /\ arrs[x].alive
    /\ FinishArr(x, [arrs[x] EXCEPT !.null = TRUE, !.elems = <<>>, !.size = 0],
                 Call("arrClear", x, <<>>))

\* Array::reverse
arrReverse(x) ==
    /\ Readable(arrs[x])
    /\ LET size == arrs[x].size
       IN  FinishArr(x, [arrs[x] EXCEPT
                           !.null = FALSE,
                           !.elems = [k \in 1..size |-> arrs[x].elems[size - k + 1]]],
                     Call("arrReverse", x, <<>>))

(***************************************************************************)
(* Specifications.  Each one runs the operations of one part of the class  *)
(* from every pair of constructed Strings; hist keeps the objects as they  *)
(* were when the last call was made.                                       *)
(***************************************************************************)
\* the Strings a program has after constructing a from an input in La and b
\* from an input in Lb
InitStrings(La, Lb) ==
    /\ \E ia \in La, ib \in Lb :
          \E sa \in Initialized([NoString EXCEPT !.alive = TRUE], ia),
             sb \in Initialized([NoString EXCEPT !.alive = TRUE], ib) :
                strs = [x \in Objs |-> IF x = "a" THEN sa ELSE sb]
    /\ ptr = NullPtr
    /\ arrs = [x \in ArrObjs |-> NoArray]
    /\ last = NoCall
    /\ hist = Snapshot

\* String a(ia), b(ib), for every pair of inputs
InitString == InitStrings(StdStrings, StdStrings)

\* the assignment operators
NextAssign ==
    \/ \E x \in Objs, y \in Objs : AssignString(x, y) /\ hist' = Snapshot
    \/ \E x \in Objs, input \in StdStrings : AssignStd(x, input) /\ hist' = Snapshot
    \/ \E x \in Objs, input \in CPointers : AssignCStr(x, input) /\ hist' = Snapshot

SpecAssign == InitString /\ [][NextAssign]_vars

\* append
NextAppend ==
    \E x \in Objs, y \in Objs : append(x, y) /\ hist' = Snapshot

SpecAppend == InitString /\ [][NextAppend]_vars

\* reverse
NextReverse ==
    \E x \in Objs : reverse(x) /\ hist' = Snapshot

SpecReverse == InitString /\ [][NextReverse]_vars

\* the numeric conversion, on Strings built from NUL, '2', '4', 'a'
NumStrings == SeqsUpTo({NUL, 50, 52, 97}, MaxLit)

InitNum == InitStrings(NumStrings, NumStrings)

NextToInt ==
    \E x \in Objs : toInt(x) /\ hist' = Snapshot

SpecToInt == InitNum /\ [][NextToInt]_vars

\* String a(ia), b("2"): a is the object the calls are made on, b their
\* String operand
InitOperand == InitStrings(StdStrings, {<<50>>})

\* p = a.toCharArray(), the caller's writes through p, and what the String a
\* does afterwards
NextCharArray ==
    \/ toCharArray("a") /\ hist' = Snapshot
    \/ \E index \in 0..(MaxLen - 1), c \in Alphabet : PtrWrite(index, c) /\ hist' = Snapshot
    \/ toUpperCase("a") /\ hist' = Snapshot
    \/ append("a", "b") /\ hist' = Snapshot
    \/ clear("a") /\ hist' = Snapshot
    \/ Destroy("a") /\ hist' = Snapshot

SpecCharArray == InitOperand /\ [][NextCharArray]_vars

\* comparison, between Strings as constructed, cleared and written through
\* operator[]
NextEquals ==
    \/ \E x \in Objs, y \in Objs : Equals(x, y) /\ hist' = Snapshot
    \/ \E x \in Objs, y \in Objs : NotEquals(x, y) /\ hist' = Snapshot
    \/ \E x \in Objs : clear(x) /\ hist' = Snapshot
    \/ \E x \in Objs, index \in 0..MaxLen, c \in Alphabet :
          IndexWrite(x, index, c) /\ hist' = Snapshot

SpecEquals == InitString /\ [][NextEquals]_vars

\* Array: construction, moves, mutation, element access
NextArray ==
    \/ \E dst \in ArrObjs, src \in ArrObjs : MoveConstruct(dst, src) /\ hist' = Snapshot
    \/ \E x \in ArrObjs : DestroyArr(x) /\ hist' = Snapshot
    \/ \E x \in ArrObjs, index \in 0..MaxArr : ArrIndex(x, index) /\ hist' = Snapshot
    \/ \E x \in ArrObjs, input \in Vals : add(x, input) /\ hist' = Snapshot
    \/ \E x \in ArrObjs, input \in Vals : arrRemove(x, input) /\ hist' = Snapshot
    \/ \E x \in ArrObjs : arrClear(x) /\ hist' = Snapshot
    \/ \E x \in ArrObjs : arrReverse(x) /\ hist' = Snapshot

SpecArray == InitArray /\ [][NextArray]_vars

\* operator[] of both classes, among their mutators
NextStringIndex ==
    \/ \E index \in 0..MaxLen : IndexRead("a", index) /\ hist' = Snapshot
    \/ \E index \in 0..MaxLen, c \in Alphabet : IndexWrite("a", index, c) /\ hist' = Snapshot
    \/ \E input \in StdStrings : AssignStd("a", input) /\ hist' = Snapshot
    \/ \E y \in Objs : append("a", y) /\ hist' = Snapshot
    \/ reverse("a") /\ hist' = Snapshot
    \/ clear("a") /\ hist' = Snapshot
    \/ toUpperCase("a") /\ hist' = Snapshot

SpecIndex == (InitOperand \/ InitArray) /\ [][NextStringIndex \/ NextArray]_vars

\* remove and operator-=
NextRemove ==
    \/ \E x \in Objs, y \in Objs : remove(x, y) /\ hist' = Snapshot
    \/ \E x \in Objs, y \in Objs : MinusAssign(x, y) /\ hist' = Snapshot

SpecRemove == InitString /\ [][NextRemove]_vars

\* contains
NextContains ==
    \E x \in Objs, y \in Objs : Contains(x, y) /\ hist' = Snapshot

SpecContains == InitString /\ [][NextContains]_vars

\* a program before it has constructed an object
InitNone ==
    /\ strs = [x \in Objs |-> NoString]
    /\ ptr = NullPtr
    /\ arrs = [x \in ArrObjs |-> NoArray]
    /\ last = NoCall
    /\ hist = Snapshot

\* the constructors and the destructor
NextConstruct ==
    \/ \E x \in Objs, input \in StdStrings : Construct(x, input) /\ hist' = Snapshot
    \/ \E x \in Objs, input \in CPointers : ConstructCStr(x, input) /\ hist' = Snapshot
    \/ \E x \in Objs, y \in Objs : CopyConstruct(x, y) /\ hist' = Snapshot
    \/ \E x \in Objs : Destroy(x) /\ hist' = Snapshot

SpecConstruct == InitNone /\ [][NextConstruct]_vars

\* isNumber and toInt on the same Strings
NextNumber ==
    \/ \E x \in Objs : QueryIsNumber(x) /\ hist' = Snapshot
    \/ \E x \in Objs : toInt(x) /\ hist' = Snapshot

SpecNumber == InitNum /\ [][NextNumber]_vars

\* the inputs of the Strings that get copied: built from NUL and 'a'
CopyInputs == SeqsUpTo({NUL, 97}, MaxLit)

\* String a(ia), and no b yet
InitOriginal ==
    /\ \E ia \in CopyInputs :
          \E sa \in Initialized([NoString EXCEPT !.alive = TRUE], ia) :
             strs = [x \in Objs |-> IF x = "a" THEN sa ELSE NoString]
    /\ ptr = NullPtr
    /\ arrs = [x \in ArrObjs |-> NoArray]
    /\ last = NoCall
    /\ hist = Snapshot

\* b is made a copy of a, and then either of the two is mutated
NextCopy ==
    \/ CopyConstruct("b", "a") /\ hist' = Snapshot
    \/ copy("b", "a") /\ hist' = Snapshot
    \/ \E x \in Objs, y \in Objs : append(x, y) /\ hist' = Snapshot
    \/ \E x \in Objs, y \in Objs : remove(x, y) /\ hist' = Snapshot
    \/ \E x \in Objs, o \in Objs, n \in Objs : replace(x, o, n) /\ hist' = Snapshot
    \/ \E x \in Objs : toLowerCase(x) /\ hist' = Snapshot
    \/ \E x \in Objs : toUpperCase(x) /\ hist' = Snapshot
    \/ \E x \in Objs, index \in 0..MaxLen : IndexWrite(x, index, 97) /\ hist' = Snapshot
    \/ \E x \in Objs : clear(x) /\ hist' = Snapshot

SpecCopy == InitOriginal /\ [][NextCopy]_vars

\* an input that does not fit the default capacity: DEFAULT_CAPACITY bytes 'a'
LongInput == [k \in 1..DEFAULT_CAPACITY |-> 97]

\* String a(ia), b("2"), with the long input among the inputs of a
InitCapacity == InitStrings(StdStrings \cup {LongInput}, {<<50>>})

\* clear, between assignments that give the String a content again
NextClear ==
    \/ \E x \in Objs : clear(x) /\ hist' = Snapshot
    \/ \E x \in Objs, input \in StdStrings \cup {LongInput} :
          AssignStd(x, input) /\ hist' = Snapshot

SpecClear == InitCapacity /\ [][NextClear]_vars

\* add and remove
NextAddRemove ==
    \/ \E x \in ArrObjs, input \in Vals : add(x, input) /\ hist' = Snapshot
    \/ \E x \in ArrObjs, input \in Vals : arrRemove(x, input) /\ hist' = Snapshot

SpecAddRemove == InitArray /\ [][NextAddRemove]_vars

\* concatenation, of Arrays as constructed, extended and cleared
NextConcat ==
    \/ \E x \in ArrObjs, y \in ArrObjs : Plus(x, y) /\ hist' = Snapshot
    \/ \E x \in ArrObjs, y \in ArrObjs : PlusAssign(x, y) /\ hist' = Snapshot
    \/ \E x \in ArrObjs : arrClear(x) /\ hist' = Snapshot

SpecConcat == InitArray /\ [][NextConcat]_vars

\* copy-assignment, and the mutators on either Array afterwards
NextArrAssign ==
    \/ \E x \in ArrObjs, y \in ArrObjs : ArrAssign(x, y) /\ hist' = Snapshot
    \/ \E x \in ArrObjs, input \in Vals : add(x, input) /\ hist' = Snapshot
    \/ \E x \in ArrObjs, input \in Vals : arrRemove(x, input) /\ hist' = Snapshot
    \/ \E x \in ArrObjs : arrReverse(x) /\ hist' = Snapshot
    \/ \E x \in ArrObjs : arrClear(x) /\ hist' = Snapshot

SpecArrAssign == InitArray /\ [][NextArrAssign]_vars

\* inputs for the conversions: digits, '.', a letter and the zero byte
ConvInputs == SeqsUpTo({NUL, 46, 50, 97}, MaxLit)

InitConv == InitStrings(ConvInputs, {<<50>>})

\* the calls that can raise an error, on a String a and on the Arrays
NextErrors ==
    \/ toShort("a") /\ hist' = Snapshot
    \/ toInt("a") /\ hist' = Snapshot
    \/ toLong("a") /\ hist' = Snapshot
    \/ toFloat("a") /\ hist' = Snapshot
    \/ toDouble("a") /\ hist' = Snapshot
    \/ \E index \in 0..MaxLen : IndexRead("a", index) /\ hist' = Snapshot
    \/ \E x \in ArrObjs, index \in 0..MaxArr : ArrIndex(x, index) /\ hist' = Snapshot
    \/ \E x \in ArrObjs, size \in 0..MaxArr : toArray(x, size) /\ hist' = Snapshot
    \/ \E x \in ArrObjs, input \in Vals : arrRemove(x, input) /\ hist' = Snapshot
    \/ \E x \in ArrObjs, input \in Vals : add(x, input) /\ hist' = Snapshot

SpecErrors == (InitConv \/ InitArray) /\ [][NextErrors]_vars

\* an input one byte short of DEFAULT_CAPACITY
BoundaryInput == [k \in 1..(DEFAULT_CAPACITY - 1) |-> 97]

CapacityInputs == StdStrings \cup {BoundaryInput, LongInput}

\* String a(ia), b("2"), with the inputs at the capacity boundary among the
\* inputs of a
InitBoundary == InitStrings(CapacityInputs, {<<50>>})

\* every operation that gives the String a its content
NextCapacity ==
    \/ \E input \in CapacityInputs : AssignStd("a", input) /\ hist' = Snapshot
    \/ AssignString("a", "b") /\ hist' = Snapshot
    \/ \E y \in Objs : append("a", y) /\ hist' = Snapshot
    \/ remove("a", "b") /\ hist' = Snapshot
    \/ \E n \in Objs : replace("a", "b", n) /\ hist' = Snapshot
    \/ reverse("a") /\ hist' = Snapshot
    \/ clear("a") /\ hist' = Snapshot
    \/ toLowerCase("a") /\ hist' = Snapshot
    \/ toUpperCase("a") /\ hist' = Snapshot

SpecCapacity == InitBoundary /\ [][NextCapacity]_vars

\* remove and contains, on Strings as constructed and as reverse() leaves them
NextOccurrence ==
    \/ \E x \in Objs, y \in Objs : remove(x, y) /\ hist' = Snapshot
    \/ \E x \in Objs, y \in Objs : Contains(x, y) /\ hist' = Snapshot
    \/ \E x \in Objs : reverse(x) /\ hist' = Snapshot

SpecOccurrence == InitString /\ [][NextOccurrence]_vars

\* operator+= and append
NextPlusAssign ==
    \/ \E x \in Objs, y \in Objs : StrPlusAssign(x, y) /\ hist' = Snapshot
    \/ \E x \in Objs, y \in Objs : append(x, y) /\ hist' = Snapshot

SpecPlusAssign == InitString /\ [][NextPlusAssign]_vars

(***************************************************************************)
(* The claims.                                                             *)
(***************************************************************************)
\* C1: after a = b, where b is a non-empty String other than a, a has the
\* size and the bytes of b, whatever a held before.
C1_AssignCopies ==
    (last.op = "assign" /\ last.obj # last.arg /\ ~isEmpty(hist.strs[last.arg]))
        => View(strs[last.obj]) = View(hist.strs[last.arg])

\* C2: assigning an empty source (an empty String, an empty std::string, the
\* C string "") leaves the destination's size, capacity and content as they
\* were.
C2_EmptyAssignIsNoOp ==
    LET emptySource ==
            \/ last.op = "assign" /\ isEmpty(hist.strs[last.arg])
            \/ last.op = "assignStd" /\ last.arg = <<>>
            \/ last.op = "assignCStr" /\ last.arg = <<NUL>>
    IN  emptySource =>
            /\ View(strs[last.obj]) = View(hist.strs[last.obj])
            /\ strs[last.obj].capacity = hist.strs[last.obj].capacity

\* C3: String(a).append(b) has size len(a) + len(b) and content a followed by
\* b (so an empty b changes nothing), for every a and b, the empty a and
\* contents with a zero byte included.
C3_AppendConcatenates ==
    (last.op = "append" /\ last.obj # last.arg) =>
        LET a == View(hist.strs[last.obj])
            b == View(hist.strs[last.arg])
        IN  View(strs[last.obj]) = [size |-> a.size + b.size, bytes |-> a.bytes \o b.bytes]

\* C4: reverse is an involution: two calls of reverse() on a non-empty String
\* leave it with the size and the bytes it had.
C4_ReverseInvolution ==
    [][(/\ last.op = "reverse" /\ last'.op = "reverse" /\ last'.obj = last.obj
        /\ ~isEmpty(hist.strs[last.obj]))
           => View(strs'[last.obj]) = View(hist.strs[last.obj])]_vars

\* C5: reverse() keeps the size and puts at every index i < size the byte
\* that was at index size-1-i.
C5_ReverseInPlace ==
    last.op = "reverse" =>
        LET was == View(hist.strs[last.obj])
            now == View(strs[last.obj])
        IN  /\ now.size = was.size
            /\ \A i \in 0..(was.size - 1) : now.bytes[i + 1] = was.bytes[was.size - i]

\* the whole of s is an integer: an optional sign, then digits only
IsInteger(s) ==
    LET ds == IF s # <<>> /\ Head(s) \in {43, 45} THEN Tail(s) ELSE s
    IN  ds # <<>> /\ \A i \in 1..Len(ds) : isdigit(ds[i])

IntegerOf(s) ==
    IF Head(s) = 45 THEN 0 - DecValue(Tail(s))
    ELSE IF Head(s) = 43 THEN DecValue(Tail(s))
    ELSE DecValue(s)

\* C6: toInt() returns a value only when the whole content is a valid
\* integer, that integer, and throws the conversion error for every other
\* content.
C6_NoPartialParse ==
    last.op = "toInt" =>
        LET s == toString(strs[last.obj])
        IN  IF IsInteger(s) THEN last.ret = Value(IntegerOf(s))
            ELSE last.ret = Thrown("invalid_argument")

\* C7: after Array b(std::move(a)), b holds a's former elements in their order
\* and a is empty: getSize() is 0, isEmpty() is true, a[i] throws out-of-range
\* for every i.
C7_MoveLeavesSourceEmpty ==
    (last.op = "move" /\ Readable(hist.arrs[last.arg])) =>
        LET b   == arrs[last.obj]
            a   == arrs[last.arg]
            was == hist.arrs[last.arg]
        IN  /\ arrGetSize(b) = was.size
            /\ \A k \in 1..was.size : b.elems[k] = was.elems[k]
            /\ arrGetSize(a) = 0
            /\ arrIsEmpty(a)
            /\ \A i \in 0..MaxArr : IndexOutcomes(a, i) = {Thrown("out_of_range")}

\* C8: in every reachable state of a String or an Array, operator[](i) throws
\* out-of-range exactly when i >= getSize(), and otherwise returns the element
\* at position i of the buffer the object owns.
C8_IndexChecked ==
    /\ last.op = "index" =>
          LET s == strs[last.obj]
          IN  IF last.arg >= getSize(s) THEN last.ret = Thrown("out_of_range")
              ELSE last.ret = Value(s.data[last.arg + 1])
    /\ last.op = "arrIndex" =>
          LET a == arrs[last.obj]
          IN  IF last.arg >= arrGetSize(a) THEN last.ret = Thrown("out_of_range")
              ELSE ~a.null /\ last.ret = Value(a.elems[last.arg + 1])

\* C9: toCharArray returns an independent copy: a write through the returned
\* array does not change the String, and a later mutation or the destruction
\* of the String leaves the returned array allocated, with the bytes it had.
C9_CharArrayIndependent ==
    /\ last.op = "ptrWrite" => \A x \in Objs : View(strs[x]) = View(hist.strs[x])
    /\ (last.op \in {"toUpperCase", "append", "clear", "destroy"} /\ hist.ptr.to # "null")
          => /\ ptr.st # "freed"
             /\ PtrBytes(strs, ptr) = PtrBytes(hist.strs, hist.ptr)

\* C10: a == b is true exactly when the two Strings have the same size and the
\* same byte at every index below it, and a != b is the negation.
C10_EqualityByteExact ==
    /\ last.op = "equals"
          => last.ret = Value(View(strs[last.obj]) = View(strs[last.arg]))
    /\ last.op = "notEquals"
          => last.ret = Value(View(strs[last.obj]) # View(strs[last.arg]))

\* the indices at which the byte sequence sub occurs in the byte sequence s
Occurrences(s, sub) ==
    {i \in 0..(Len(s) - Len(sub)) : SubSeq(s, i + 1, i + Len(sub)) = sub}

\* C11: remove(sub) deletes exactly the first occurrence: with sub non-empty
\* and occurring in the String the result is the content without the bytes of
\* the smallest-index occurrence, the size smaller by len(sub); with sub empty,
\* longer than the String or not occurring, size and content stay as they were.
C11_RemoveFirstOccurrence ==
    last.op = "remove" =>
        LET s    == toString(hist.strs[last.obj])
            sub  == toString(hist.strs[last.arg])
            hits == Occurrences(s, sub)
        IN  IF sub = <<>> \/ hits = {}
            THEN View(strs[last.obj]) = View(hist.strs[last.obj])
            ELSE LET i == CHOOSE k \in hits : \A j \in hits : k <= j
                 IN  /\ last.ret = Void
                     /\ View(strs[last.obj]) =
                            [size  |-> Len(s) - Len(sub),
                             bytes |-> SubSeq(s, 1, i) \o SubSeq(s, i + Len(sub) + 1, Len(s))]

\* s with every occurrence of the non-empty sub deleted, left to right
RECURSIVE DeleteAll(_, _)
DeleteAll(s, sub) ==
    IF Len(s) < Len(sub) THEN s
    ELSE IF SubSeq(s, 1, Len(sub)) = sub
    THEN DeleteAll(SubSeq(s, Len(sub) + 1, Len(s)), sub)
    ELSE <<Head(s)>> \o DeleteAll(Tail(s), sub)

\* C12: remove(sub) and operator-=(sub) delete all occurrences: for every
\* String s and non-empty sub, the content after the call is s with every
\* occurrence of sub deleted.
C12_RemoveAllOccurrences ==
    (/\ last.op \in {"remove", "minusAssign"}
     /\ last.obj # last.arg
     /\ ~isEmpty(hist.strs[last.arg])) =>
        toString(strs[last.obj]) =
            DeleteAll(toString(hist.strs[last.obj]), toString(hist.strs[last.arg]))

\* C13, as stated: contains(sub) returns -1 exactly when sub does not occur in
\* the first size bytes, and otherwise the smallest index i at which the bytes
\* i..i+len(sub)-1 equal sub.
C13_ContainsIffOccurs ==
    last.op = "contains" =>
        LET hits == Occurrences(toString(strs[last.obj]), toString(strs[last.arg]))
        IN  IF hits = {} THEN last.ret = Value(0 - 1)
            ELSE last.ret = Value(CHOOSE i \in hits : \A k \in hits : i <= k)

\* C13, amended: for a non-empty sub, contains(sub) returns -1 exactly when sub
\* does not occur in the first size bytes and otherwise the smallest index of
\* an occurrence; for the empty sub it returns -1.
C13_ContainsFirstIndex ==
    last.op = "contains" =>
        LET sub  == toString(strs[last.arg])
            hits == Occurrences(toString(strs[last.obj]), sub)
        IN  IF sub = <<>> \/ hits = {} THEN last.ret = Value(0 - 1)
            ELSE last.ret = Value(CHOOSE i \in hits : \A k \in hits : i <= k)

\* C13 witness: a search that found its occurrence at index 1, behind a zero
\* byte at index 0
C13_Witness ==
    /\ last.op = "contains"
    /\ last.ret = Value(1)
    /\ strs[last.obj].data[1] = NUL

\* C14: round trip: a String constructed from the byte sequence s (the empty
\* one and those with a zero byte included) has getSize() = len(s) and its
\* toString() is exactly s; constructed from a C string, s is the bytes before
\* the terminator.
C14_RoundTrip ==
    /\ last.op = "construct" =>
          /\ getSize(strs[last.obj]) = Len(last.arg)
          /\ toString(strs[last.obj]) = last.arg
    /\ last.op = "constructCStr" =>
          /\ getSize(strs[last.obj]) = Len(last.arg) - 1
          /\ toString(strs[last.obj]) = SubSeq(last.arg, 1, Len(last.arg) - 1)

\* C14 witness: a String constructed from a two-byte sequence that starts with
\* a zero byte, holding both bytes
C14_Witness ==
    /\ last.op = "construct"
    /\ Len(last.arg) = 2 /\ last.arg[1] = NUL /\ last.arg[2] # NUL
    /\ toString(strs[last.obj]) = last.arg

C16_CopyIndependent ==
    /\ last.op \in {"copy", "copyOf"} =>
          View(strs[last.obj]) = View(strs[last.arg])
    /\ last.op \in {"append", "remove", "replace", "toLowerCase", "toUpperCase",
                    "indexWrite", "clear"} =>
          \A x \in Objs \ {last.obj} : View(strs[x]) = View(hist.strs[x])

\* C16 witness: a and its copy b were equal, a mutation of a changed a, and
\* the non-empty b still is what it was
C16_Witness ==
    /\ last.op \in {"append", "remove", "replace", "toUpperCase", "indexWrite", "clear"}
    /\ last.obj = "a"
    /\ strs["b"].alive /\ ~isEmpty(strs["b"])
    /\ View(hist.strs["a"]) = View(hist.strs["b"])
    /\ View(strs["a"]) # View(strs["b"])
    /\ View(strs["b"]) = View(hist.strs["b"])

\* C17: clear() resets the String to the empty state from any prior state:
\* afterwards getSize() is 0, isEmpty() is true, getCapacity() is the default
\* capacity 32 and toString() is the empty string.
C17_ClearResets ==
    last.op = "clear" =>
        /\ getSize(strs[last.obj]) = 0
        /\ isEmpty(strs[last.obj])
        /\ getCapacity(strs[last.obj]) = DEFAULT_CAPACITY
        /\ toString(strs[last.obj]) = <<>>

\* C17 witness: clear() of a String that held DEFAULT_CAPACITY bytes in a
\* buffer of twice the default capacity
C17_Witness ==
    /\ last.op = "clear"
    /\ getSize(hist.strs[last.obj]) = DEFAULT_CAPACITY
    /\ getCapacity(hist.strs[last.obj]) = 2 * DEFAULT_CAPACITY
    /\ getCapacity(strs[last.obj]) = DEFAULT_CAPACITY

\* C18: Array::remove(v) removes exactly the first element equal to v: the
\* elements before it keep their positions, the later ones move one position
\* left in their order, getSize() is one less; when no element equals v it
\* raises the not-found error.
C18_ArrayRemoveFirst ==
    last.op = "arrRemove" =>
        LET was  == ArrView(hist.arrs[last.obj])
            now  == ArrView(arrs[last.obj])
            hits == {k \in 1..was.size : was.elems[k] = last.arg}
        IN  IF hits = {} THEN last.ret = Thrown("not_found")
            ELSE LET i == CHOOSE k \in hits : \A m \in hits : k <= m
                 IN  /\ last.ret = Void
                     /\ now.size = was.size - 1
                     /\ \A k \in 1..now.size :
                           now.elems[k] = IF k < i THEN was.elems[k] ELSE was.elems[k + 1]

\* C18 witness: remove(10) on the Array 10, 20 left size 1 with element 0
\* equal to 20
C18_Witness ==
    /\ last.op = "arrRemove" /\ last.arg = 10
    /\ ArrView(hist.arrs[last.obj]) = [size |-> 2, elems |-> <<10, 20>>]
    /\ ArrView(arrs[last.obj]) = [size |-> 1, elems |-> <<20>>]

\* C19: for an Array a and a value v that a does not contain, a.add(v)
\* followed by a.remove(v) returns a to the size and the elements, in their
\* order, that it had before the add.
C19_AddThenRemove ==
    [][(/\ last.op = "add"
        /\ last'.op = "arrRemove" /\ last'.obj = last.obj /\ last'.arg = last.arg
        /\ \A k \in 1..hist.arrs[last.obj].size : hist.arrs[last.obj].elems[k] # last.arg)
           => ArrView(arrs'[last.obj]) = ArrView(hist.arrs[last.obj])]_vars

\* C19 witness: a remove(v) has just undone an add(v).  The Array before the
\* remove filled an allocation of MaxVec + 1 elements, which only add makes
\* here, with v last and nowhere else; the remove left the elements before v.
C19_Witness ==
    /\ last.op = "arrRemove" /\ last.ret = Void
    /\ LET was == hist.arrs[last.obj]
           now == arrs[last.obj]
       IN  /\ was.size = MaxVec + 1 /\ Len(was.elems) = MaxVec + 1
           /\ was.elems[was.size] = last.arg
           /\ \A k \in 1..MaxVec : was.elems[k] # last.arg
           /\ ArrView(now) = [size |-> MaxVec, elems |-> SubSeq(was.elems, 1, MaxVec)]

\* C20: concatenation: for Arrays a and b, either of them possibly empty,
\* c = a + b has c.getSize() = a.getSize() + b.getSize(), c[i] = a[i] below
\* a.getSize() and c[a.getSize() + j] = b[j] below b.getSize(); a += b gives a
\* the size and the elements of a + b.
C20_Concatenation ==
    /\ last.op = "plus" =>
          LET a == ArrView(arrs[last.obj])
              b == ArrView(arrs[last.arg])
              c == last.ret.value
          IN  /\ c.size = a.size + b.size
              /\ \A i \in 0..(a.size - 1) : c.elems[i + 1] = a.elems[i + 1]
              /\ \A j \in 0..(b.size - 1) : c.elems[a.size + j + 1] = b.elems[j + 1]
    /\ last.op = "plusAssign" =>
          ArrView(arrs[last.obj]) =
              ArrView(plus(hist.arrs[last.obj], hist.arrs[last.arg]))

\* C20 witness: a += b has acted on two non-empty Arrays with different
\* elements, and a has grown by the size of b
C20_Witness ==
    /\ last.op = "plusAssign"
    /\ last.obj # last.arg
    /\ hist.arrs[last.obj].size > 0 /\ hist.arrs[last.arg].size > 0
    /\ ArrView(hist.arrs[last.obj]) # ArrView(hist.arrs[last.arg])
    /\ arrs[last.obj].size = hist.arrs[last.obj].size + hist.arrs[last.arg].size

\* C21: Array copy-assignment has value semantics: after a = b, with a and b
\* distinct, a has b's size and elements in their order whatever a held, and b
\* is as it was; a later add, remove, reverse or clear on one of them leaves
\* the other as it was; a = a leaves a as it was.
C21_ArrayAssignValue ==
    /\ (last.op = "arrAssign" /\ last.obj # last.arg) =>
          /\ ArrView(arrs[last.obj]) = ArrView(hist.arrs[last.arg])
          /\ arrs[last.arg] = hist.arrs[last.arg]
    /\ (last.op = "arrAssign" /\ last.obj = last.arg) =>
          arrs[last.obj] = hist.arrs[last.obj]
    /\ last.op \in {"add", "arrRemove", "arrReverse", "arrClear"} =>
          \A x \in ArrObjs \ {last.obj} : arrs[x] = hist.arrs[x]

\* C21 witness: a = b has replaced the elements of a non-empty a by the
\* different elements of a non-empty b
C21_Witness ==
    /\ last.op = "arrAssign" /\ last.obj # last.arg
    /\ hist.arrs[last.obj].size > 0 /\ hist.arrs[last.arg].size > 0
    /\ ArrView(hist.arrs[last.obj]) # ArrView(hist.arrs[last.arg])
    /\ ArrView(arrs[last.obj]) = ArrView(arrs[last.arg])

\* C22: a call that raises an error leaves the container as it was: when
\* Array::remove raises not-found, Array::toArray raises size-mismatch,
\* operator[] raises out-of-range, or toShort, toInt, toLong, toFloat or
\* toDouble raises a conversion error, the size and every element or byte are
\* the same as before the call.
C22_ErrorsLeaveContainer ==
    (/\ last.op \in {"arrRemove", "toArray", "arrIndex", "index",
                     "toShort", "toInt", "toLong", "toFloat", "toDouble"}
     /\ last.ret.kind \in {"not_found", "logic_error", "out_of_range",
                           "invalid_argument"}) =>
        /\ strs = hist.strs
        /\ arrs = hist.arrs

\* C22 witness: remove has raised not-found on an Array that holds elements
C22_Witness ==
    /\ last.op = "arrRemove" /\ last.ret = Thrown("not_found")
    /\ hist.arrs[last.obj].size > 0
    /\ arrs[last.obj] = hist.arrs[last.obj]

\* C23: in every reachable state of a String, after construction and any
\* sequence of assignment, append, remove, replace, reverse, clear and case
\* conversion, size < capacity and capacity is a positive multiple of 32.
C23_SizeBelowCapacity ==
    \A x \in Objs :
        strs[x].alive =>
            /\ getSize(strs[x]) < getCapacity(strs[x])
            /\ getCapacity(strs[x]) > 0
            /\ getCapacity(strs[x]) % 32 = 0

\* C23 witness: an append has taken a String of 31 bytes to 32 bytes, in a
\* buffer of 64
C23_Witness ==
    /\ last.op = "append"
    /\ getSize(hist.strs[last.obj]) = DEFAULT_CAPACITY - 1
    /\ getSize(strs[last.obj]) = DEFAULT_CAPACITY
    /\ getCapacity(strs[last.obj]) = 2 * DEFAULT_CAPACITY

\* the least number of blocks of 32 that hold n bytes: ceil(n / 32)
CeilBlocks(n) == CHOOSE k \in 1..n : 32 * (k - 1) < n /\ n <= 32 * k

\* C25: a non-empty String of length n has capacity ceil((n + 1) / 32) * 32
\* exactly (n = 31 gives 32, n = 32 gives 64) after every construction,
\* assignment, append, remove, replace or reverse; an empty one has
\* capacity 32.
C25_CapacityExact ==
    \A x \in Objs :
        strs[x].alive =>
            getCapacity(strs[x]) =
                IF getSize(strs[x]) = 0 THEN 32
                ELSE CeilBlocks(getSize(strs[x]) + 1) * 32

\* C25 witness: a remove has taken a String of 32 bytes in a buffer of 64 to
\* 31 bytes in a buffer of 32
C25_Witness ==
    /\ last.op = "remove"
    /\ getSize(hist.strs[last.obj]) = 32 /\ getCapacity(hist.strs[last.obj]) = 64
    /\ getSize(strs[last.obj]) = 31 /\ getCapacity(strs[last.obj]) = 32

\* C24: in every reachable state of a String, a default-constructed String
\* and a String just after clear() included, the buffer holds a zero byte at
\* index size.
C24_TerminatorAtSize ==
    \A x \in Objs :
        strs[x].alive => strs[x].data[getSize(strs[x]) + 1] = NUL

\* C26: every buffer allocated for a String is released exactly once: a
\* buffer a mutation replaced is released when it is replaced, the current
\* buffer at destruction, none is released twice or left allocated without
\* an owner.  Of the buffer the char* p names: once no String owns it (p.to
\* is "old"), it has been released.
C26_BufferReleased ==
    ptr.to = "old" => ptr.st = "freed"

\* C27: in every reachable state of an Array, after any constructor
\* (construction from an empty vector and move construction included) and any
\* sequence of add, remove, reverse, clear, += and assignment, the storage
\* pointer is null exactly when size == 0.
C27_NullIffEmpty ==
    \A x \in ArrObjs :
        arrs[x].alive => (arrs[x].null <=> arrs[x].size = 0)

\* C28: after every structural mutation of an Array (add, remove, reverse,
\* clear, operator+=, copy-assignment) the allocated storage holds exactly
\* size elements: no slot beyond size-1 stays allocated.
C28_StorageHoldsSize ==
    (/\ last.op \in {"add", "arrRemove", "arrReverse", "arrClear", "plusAssign",
                     "arrAssign"}
     /\ last.ret = Void) =>
        Len(arrs[last.obj].elems) = arrs[last.obj].size

\* C29: remove and contains agree on occurrence in every reachable state: for
\* every String s (one produced by reverse() or holding a zero byte included)
\* and every non-empty sub, s.remove(sub) changes s exactly when
\* s.contains(sub) != -1, and the bytes removed start at the index contains
\* returned.
C29_RemoveAgreesWithContains ==
    (last.op = "remove" /\ ~isEmpty(hist.strs[last.arg])) =>
        LET s   == toString(hist.strs[last.obj])
            n   == getSize(hist.strs[last.arg])
            c   == contains(hist.strs[last.obj], hist.strs[last.arg])
        IN  /\ (View(strs[last.obj]) # View(hist.strs[last.obj])) <=> (c # 0 - 1)
            /\ c # 0 - 1 =>
                  toString(strs[last.obj]) =
                      SubSeq(s, 1, c) \o SubSeq(s, c + n + 1, Len(s))

\* C30: operator+= and append have the same effect on a String for every
\* String argument, the String itself included: s += t leaves s with the
\* size and bytes that s.append(t) leaves.
C30_PlusAssignIsAppend ==
    last.op = "strPlusAssign" =>
        View(strs[last.obj]) \in
            {View(t) : t \in Appended(hist.strs[last.obj], hist.strs[last.arg])}
====
